---------------------------- MODULE Spec2Model ----------------------------
(***************************************************************************)
(* A model of the pack registry of resourcepack-server                     *)
(* (src/server/server.go, package pack): PacksManager, its scan of the     *)
(* packs directory, the file watcher with its cooldown and settle delay,   *)
(* the readers, the manual rescan and the temporary archives.              *)
(*                                                                         *)
(* Time is counted in ticks of 500ms.  File names and pack names are       *)
(* sequences of tokens, <<"a", ".zip">> being the file a.zip, so that      *)
(* strings.HasSuffix and strings.TrimSuffix are computed on them.          *)
(***************************************************************************)
EXTENDS Integers, Sequences, FiniteSets, TLC

(***************************************************************************)
(* Bounds of the model.                                                    *)
(***************************************************************************)
\* Spec: the changes of the filesystem, the rescan requests
MaxFsChanges == 1
MaxManual == 1
\* SpecWatch: the changes of the filesystem (one notification each)
MaxEvents == 2
\* SpecZip: the archives made
MaxZips == 2
\* fingerprintings of one directory, and the latest modification time (ticks)
MaxWalks == 2
MaxMtime == 3
\* SpecStop: the calls of StopFileMonitoring
MaxStops == 2

(***************************************************************************)
(* Program constants.                                                      *)
(***************************************************************************)
\* one tick is 500ms: two ticks per second of time.Now().Unix()
TicksPerSecond == 2
\* time.Sleep(500 * time.Millisecond), in ticks
SettleTicks == 1
\* packs.scan_cooldown = 2.0 seconds, in ticks
CooldownTicks == 4
\* packFormat := 22
DefaultPackFormat == 22

\* nil, and the absence of a file
None == [none |-> TRUE]

(***************************************************************************)
(* JSON values of a manifest (pack.mcmeta).                                *)
(***************************************************************************)
JAbsent == [t |-> "absent"]
JNull == [t |-> "null"]
\* a JSON string, its text a sequence of pieces: JStr(<<"Foo">>), JStr(<<>>) for ""
JStr(s) == [t |-> "string", v |-> s]
\* a JSON number, kept in tenths: JNum(157) is 15.7
JNum(tenths) == [t |-> "number", v |-> tenths]
JObj(desc, fmt) == [t |-> "object", description |-> desc, pack_format |-> fmt]

\* the bytes of a manifest: not a JSON object, or an object with its "pack" member
Unparseable == [valid |-> FALSE]
Doc(packMember) == [valid |-> TRUE, pack |-> packMember]

\* int(format) of a float64: truncation toward zero
IntOfFloat(tenths) == IF tenths >= 0 THEN tenths \div 10 ELSE 0 - ((0 - tenths) \div 10)

\* PackInfo, or None for nil
parsePackMcmeta(content) ==
    IF ~content.valid THEN None
    ELSE IF content.pack.t # "object" THEN None
    ELSE [Description |-> IF content.pack.description.t = "string"
                             THEN content.pack.description.v ELSE <<>>,
          PackFormat |-> IF content.pack.pack_format.t = "number"
                            THEN IntOfFloat(content.pack.pack_format.v)
                            ELSE DefaultPackFormat]

(***************************************************************************)
(* File names.                                                             *)
(***************************************************************************)
ZipExt == ".zip"

HasSuffix(name, ext) == Len(name) > 0 /\ name[Len(name)] = ext

TrimSuffix(name, ext) ==
    IF HasSuffix(name, ext) THEN SubSeq(name, 1, Len(name) - 1) ELSE name

\* filepath.Base(pm.packsDirectory)
RootName == <<"b">>
RootPath == <<RootName>>

\* the names a child of the root may have, in the order os.ReadDir sorts them
SortedNames == << <<"a">>, <<"a", ".zip">>, <<"b">>, <<"b", ".zip">> >>
FileNames == {SortedNames[i] : i \in 1..Len(SortedNames)}

Join(dir, name) == Append(dir, name)

\* fmt.Sprintf("Resource Pack: %s", name)
DefaultDescription(name) == <<"Resource Pack: ">> \o name

(***************************************************************************)
(* Trees, sizes and fingerprints.  A relative path is a sequence of        *)
(* components, each a token sequence like a file name.                     *)
(***************************************************************************)
ManifestName == <<"pack", ".mcmeta">>
AssetRel == << <<"assets">>, <<"x", ".png">> >>
ManifestRel == <<ManifestName>>

\* every relative path of the model, in the byte order of the lines
\* "<rel>:<mtime>:<size>" that sort.Strings puts them in ('.' < '/' < ':')
OrderedRels ==
    << <<SortedNames[2]>> \o AssetRel, <<SortedNames[2]>> \o ManifestRel, <<SortedNames[2]>>,
       <<SortedNames[1]>> \o AssetRel, <<SortedNames[1]>> \o ManifestRel, <<SortedNames[1]>>,
       AssetRel,
       <<SortedNames[4]>> \o AssetRel, <<SortedNames[4]>> \o ManifestRel, <<SortedNames[4]>>,
       <<SortedNames[3], SortedNames[1]>> \o ManifestRel,
       <<SortedNames[3]>> \o AssetRel, <<SortedNames[3]>> \o ManifestRel, <<SortedNames[3]>>,
       ManifestRel >>

RelIndex(rel) == CHOOSE i \in 1..Len(OrderedRels) : OrderedRels[i] = rel

\* a regular file met by filepath.Walk: its path relative to the walked
\* directory, its modification time (ticks) and its size
FileRec(rel, mtime, size) == [rel |-> rel, mtime |-> mtime, size |-> size]

RECURSIVE SumSizes(_)
SumSizes(files) ==
    IF files = {} THEN 0
    ELSE LET f == CHOOSE x \in files : TRUE
         IN f.size + SumSizes(files \ {f})

\* fmt.Sprintf("%s:%d:%d", relPath, info.ModTime().Unix(), info.Size())
FileInfoString(f) == <<f.rel, f.mtime \div TicksPerSecond, f.size>>

\* the order of sort.Strings on the formatted lines; a walk meets each
\* relative path once, so the path decides
InfoLess(x, y) == RelIndex(x[1]) < RelIndex(y[1])

RECURSIVE SortStrings(_)
SortStrings(lines) ==
    IF lines = {} THEN <<>>
    ELSE LET m == CHOOSE x \in lines : \A y \in lines : ~InfoLess(y, x)
         IN <<m>> \o SortStrings(lines \ {m})

\* md5 of a byte string, as an injective tag of what was hashed
Md5(bytes) == [md5 |-> bytes]

\* an error result, and a result with a value
Err == [err |-> TRUE]
Ok(v) == [err |-> FALSE, val |-> v]

\* walked is what filepath.Walk reports: Err, or Ok of the set of regular files
calculateDirectorySize(walked) ==
    IF walked.err THEN Err ELSE Ok(SumSizes(walked.val))

calculateDirectoryHash(walked) ==
    IF walked.err THEN Err
    ELSE Ok(Md5([lines |-> SortStrings({FileInfoString(f) : f \in walked.val})]))

calculateFileHash(e) ==
    IF e.err = "read" THEN Err ELSE Ok(Md5([file |-> e.content]))

(***************************************************************************)
(* The filesystem under the packs directory.                               *)
(*   fs.root       the root directory itself, a directory entry            *)
(*   fs.children   file name -> entry, or None when there is no such file  *)
(* An entry: isDir; manifest, the pack.mcmeta at its top level (of a       *)
(* directory) or among its archive entries (of a file), None when there is *)
(* none, else [readable, content]; err, "none", "stat" (os.Stat of the     *)
(* path fails) or "read" (the directory cannot be walked, the file cannot  *)
(* be opened); mtime; and files (directory) or size and content (file).    *)
(***************************************************************************)
ManifestFile(readable, content) == [readable |-> readable, content |-> content]

DirEntry(manifest, err, mtime, files) ==
    [isDir |-> TRUE, manifest |-> manifest, err |-> err, mtime |-> mtime,
     files |-> files, size |-> 0, content |-> 0]

FileEntry(manifest, err, mtime, size, content) ==
    [isDir |-> FALSE, manifest |-> manifest, err |-> err, mtime |-> mtime,
     files |-> {}, size |-> size, content |-> content]

Present(f, name) == f.children[name] # None

\* filepath.Walk of a child directory
WalkDir(e) == IF e.err = "read" THEN Err ELSE Ok(e.files)

\* the regular files under a child, relative to the root
UnderRoot(name, e) ==
    IF e.isDir THEN {FileRec(<<name>> \o x.rel, x.mtime, x.size) : x \in e.files}
    ELSE {FileRec(<<name>>, e.mtime, e.size)}

\* filepath.Walk of the root: its own files and everything under its children
WalkRoot(f) ==
    IF \/ f.root.err = "read"
       \/ \E n \in FileNames : Present(f, n) /\ f.children[n].isDir /\ f.children[n].err = "read"
    THEN Err
    ELSE Ok(f.root.files \cup
            UNION {UnderRoot(n, f.children[n]) : n \in {x \in FileNames : Present(f, x)}})

\* os.ReadDir(pm.packsDirectory) when it succeeds: the names, sorted
ReadDir(f) == Ok(SelectSeq(SortedNames, LAMBDA n : Present(f, n)))

(***************************************************************************)
(* The loaders.                                                            *)
(***************************************************************************)
\* (a test that takes every directory for a pack, for comparison)
isResourcePackDirectory_Always(e) == TRUE

\* os.Stat(dirPath/pack.mcmeta) succeeds
isResourcePackDirectory(e) == e.manifest # None

ResourcePack(name, path, description, packFormat, size, hash, lastModified, isDirectory) ==
    [Name |-> name, Path |-> path, Description |-> description, PackFormat |-> packFormat,
     Size |-> size, Hash |-> hash, LastModified |-> lastModified, IsDirectory |-> isDirectory]

\* the PackInfo read from an entry's manifest, None when it cannot be read or parsed
ManifestInfo(e) ==
    IF e.manifest = None THEN None
    ELSE IF ~e.manifest.readable THEN None
    ELSE parsePackMcmeta(e.manifest.content)

loadZipPack(packPath, fileName, e) ==
    LET name == TrimSuffix(fileName, ZipExt)
        packInfo == ManifestInfo(e)
        description == IF packInfo # None THEN packInfo.Description ELSE DefaultDescription(name)
        packFormat == IF packInfo # None THEN packInfo.PackFormat ELSE DefaultPackFormat
        hash == calculateFileHash(e)
    IN IF e.err = "stat" THEN Err
       ELSE IF hash.err THEN Err
       ELSE Ok(ResourcePack(name, packPath, description, packFormat, e.size, hash.val,
                            e.mtime, FALSE))

loadDirectoryPack(dirPath, name, e, walked) ==
    LET packInfo == ManifestInfo(e)
        description == IF packInfo # None THEN packInfo.Description ELSE DefaultDescription(name)
        packFormat == IF packInfo # None THEN packInfo.PackFormat ELSE DefaultPackFormat
        size == calculateDirectorySize(walked)
        hash == calculateDirectoryHash(walked)
    IN IF size.err THEN Err
       ELSE IF hash.err THEN Err
       ELSE IF e.err = "stat" THEN Err
       ELSE Ok(ResourcePack(name, dirPath, description, packFormat, size.val, hash.val,
                            e.mtime, TRUE))

(***************************************************************************)
(* The index: pack name -> ResourcePack, None where the map has no entry.  *)
(***************************************************************************)
PackNames == {RootName} \cup FileNames \cup {TrimSuffix(n, ZipExt) : n \in FileNames}

\* make(map[string]*ResourcePack)
EmptyMap == [n \in PackNames |-> None]

\* (a scan that gives up what it has loaded when a loader fails, for comparison)
Store_DropOnError(index, loaded) ==
    IF loaded.err THEN [n \in DOMAIN index |-> [none |-> TRUE]]
    ELSE [index EXCEPT ![loaded.val.Name] = loaded.val]

\* (a map that keeps the first pack stored under a name, for comparison)
Store_KeepFirst(index, loaded) ==
    IF loaded.err THEN index
    ELSE IF index[loaded.val.Name] # [none |-> TRUE] THEN index
    ELSE [index EXCEPT ![loaded.val.Name] = loaded.val]

\* pm.packs[pack.Name] = pack, when the loader returned no error
Store(index, loaded) ==
    IF loaded.err THEN index ELSE [index EXCEPT ![loaded.val.Name] = loaded.val]

\* the root-directory part of scanPacks
LoadRoot(index, f) ==
    IF isResourcePackDirectory(f.root)
    THEN Store(index, loadDirectoryPack(RootPath, RootName, f.root, WalkRoot(f)))
    ELSE index

\* (a loop that puts every regular file to loadZipPack, for comparison)
LoadEntry_AnyFile(index, f, name) ==
    LET e == f.children[name]
        entryPath == Join(RootPath, name)
    IN IF e = None THEN index
       ELSE IF e.isDir
       THEN IF isResourcePackDirectory(e)
            THEN Store(index, loadDirectoryPack(entryPath, name, e, WalkDir(e)))
            ELSE index
       ELSE Store(index, loadZipPack(entryPath, name, e))

\* one iteration of the loop of scanPacks over the entries of the root; an
\* entry that has vanished since os.ReadDir fails its os.Stat and is skipped
LoadEntry(index, f, name) ==
    LET e == f.children[name]
        entryPath == Join(RootPath, name)
    IN IF e = None THEN index
       ELSE IF e.isDir
       THEN IF isResourcePackDirectory(e)
            THEN Store(index, loadDirectoryPack(entryPath, name, e, WalkDir(e)))
            ELSE index
       ELSE IF HasSuffix(name, ZipExt)
       THEN Store(index, loadZipPack(entryPath, name, e))
       ELSE index

RECURSIVE LoadEntries(_, _, _)
LoadEntries(index, f, names) ==
    IF names = <<>> THEN index
    ELSE LoadEntries(LoadEntry(index, f, Head(names)), f, Tail(names))

\* the index a scan builds when the filesystem holds still and can be read
ScanIndex(f) == LoadEntries(LoadRoot(EmptyMap, f), f, ReadDir(f).val)

(***************************************************************************)
(* State.  Time is kept relative to the present: the program compares      *)
(* time.Now() with pm.lastScanTime and with the end of its sleep, and names *)
(* an archive after the current Unix second, so the state holds the time   *)
(* since pm.lastScanTime (capped at the cooldown, beyond which the program *)
(* does not tell times apart), the rest of the sleep, and the place of the *)
(* present within its second.                                              *)
(***************************************************************************)
Main == "main"
Watcher == "watcher"
ManualProcs == {"m1", "m2"}
Procs == {Main, Watcher} \cup ManualProcs

VARIABLES
    fs,            \* the filesystem under the packs directory
    config,        \* Config: FileMonitor, FileMonitorInterval (ticks)
    packs,         \* pm.packs
    sinceScan,     \* time.Since(pm.lastScanTime) in ticks, capped at CooldownTicks
    mu,            \* pm.mu: the goroutine holding the write lock, or "free"
    reader,        \* a GetAllPacks call holding the read lock: what it copied, or None
    pc,            \* where each goroutine stands
    entries,       \* per scan: the entries of the root still to visit
    sleepLeft,     \* ticks left of the watcher's time.Sleep
    events,        \* notifications waiting in watcher.Events
    watching,      \* watcher.Add(pm.packsDirectory) succeeded
    phase,         \* ticks gone by in the current Unix second
    zips,          \* the archive paths handed out: pack name, seconds ago (capped)
    fsChanges,     \* changes made to the filesystem so far
    manualReq,     \* rescan requests accepted so far
    hist,          \* history of the scans: what the properties below speak about
    obs,           \* history of the change notifications and their timing
    walk,          \* a directory under fingerprinting: its files, the walk, the digests
    held,          \* the slice a caller of GetAllPacks was returned and still holds, or None
    http,          \* the last request the router answered, or None
    stop,          \* pm.fileMonitorStop and the calls of StopFileMonitoring
    archive        \* what the last CreateZipFromDirectory returned and wrote, or None

vars == <<fs, config, packs, sinceScan, mu, reader, pc, entries, sleepLeft, events,
          watching, phase, zips, fsChanges, manualReq, hist, obs, walk, held, http, stop, archive>>

ScanningPcs == {"readdir", "loop"}

\* where a goroutine continues when its scanPacks returns
After(p) == IF p = Main THEN "monitor" ELSE IF p = Watcher THEN "idle" ELSE "gone"

Min(a, b) == IF a < b THEN a ELSE b
Max(a, b) == IF a > b THEN a ELSE b

(***************************************************************************)
(* History variable hist:                                                  *)
(*   before     pm.packs as it was when the latest scan took the lock      *)
(*   whole      pm.packs is the finished product of one successful scan    *)
(*   published  the indexes successful scans have produced                 *)
(*   result     how the latest scan to return ended: "none", "ok", "err"   *)
(*   writers    the scans that wrote into the current map                  *)
(*   diskReader the scan that read the disk last                           *)
(*   started    scans started, per goroutine                               *)
(*   inCooldown the latest rescan request came within the cooldown         *)
(*   failed     some scan returned an error                                *)
(*   wfailed    some watcher-triggered scan returned an error              *)
(*   zipsMade   archives CreateZipFromDirectory has returned               *)
(*   zipClash   CreateZipFromDirectory returned a path it returned before  *)
(* History variable obs, kept where the timing of notifications is looked  *)
(* at:                                                                     *)
(*   arrived    change notifications raised                                *)
(*   sinceEvent ticks since the latest change notification, capped         *)
(*   apart      per notification after the first: ticks since the one      *)
(*              before it, capped                                          *)
(*   handled    per notification handled: ticks since lastScanTime, capped *)
(***************************************************************************)
ApartCap == 2

HistInit ==
    [before |-> EmptyMap, whole |-> FALSE, published |-> {}, result |-> "none", writers |-> {},
     diskReader |-> "nobody", started |-> [p \in Procs |-> 0], inCooldown |-> FALSE,
     failed |-> FALSE, wfailed |-> FALSE, zipsMade |-> 0, zipClash |-> FALSE]

\* make(chan struct{}): open; no call of StopFileMonitoring yet
StopInit == [closed |-> FALSE, calls |-> 0, panicked |-> FALSE]

ObsInit == [arrived |-> 0, sinceEvent |-> 0, apart |-> <<>>, handled |-> <<>>, last |-> None]

(***************************************************************************)
(* calculateDirectoryHash, taken callback by callback: the directory's     *)
(* files, the order in which filepath.Walk has met them so far, and what   *)
(* the calls that returned were given and gave.                            *)
(***************************************************************************)
\* a regular file of the fingerprinted directory, with its bytes
HashedFile(rel, mtime, size, content) ==
    [rel |-> rel, mtime |-> mtime, size |-> size, content |-> content]

BaseFiles ==
    {HashedFile(ManifestRel, 2, 2, 1), HashedFile(<<SortedNames[1]>> \o AssetRel, 2, 3, 1),
     HashedFile(<<SortedNames[4]>>, 2, 5, 1)}

WalkInit == [files |-> BaseFiles, order |-> <<>>, seen |-> {}]

\* (a fingerprint of the lines in the order of the walk, for comparison)
SortLines_AsMet(lines) == lines

\* sort.Strings(fileInfos), on the sequence the walk appended to
RECURSIVE SortLines(_)
SortLines(lines) ==
    IF lines = <<>> THEN <<>>
    ELSE LET rest == SortLines(Tail(lines))
             before == SelectSeq(rest, LAMBDA y : InfoLess(y, Head(lines)))
             after == SelectSeq(rest, LAMBDA y : ~InfoLess(y, Head(lines)))
         IN before \o <<Head(lines)>> \o after

\* lines 672-677: sort, join, md5, of the fileInfos a walk has appended
DirectoryHashOf(order) ==
    Md5([lines |-> SortLines([i \in 1..Len(order) |-> FileInfoString(order[i])])])

\* the walk function is called for one more file, in whatever order
\* filepath.Walk enumerates the directory
WalkVisit ==
    /\ Cardinality(walk.seen) < MaxWalks
    /\ \E f \in walk.files :
          /\ \A i \in 1..Len(walk.order) : walk.order[i] # f
          /\ walk' = [walk EXCEPT !.order = Append(@, f)]
    /\ UNCHANGED <<fs, config, archive, stop, http, held, packs, sinceScan, mu, reader, pc, entries, sleepLeft, events,
                   watching, phase, zips, fsChanges, manualReq, hist, obs>>

\* filepath.Walk has returned nil; calculateDirectoryHash returns the digest
WalkReturn ==
    /\ Len(walk.order) = Cardinality(walk.files)
    /\ walk' = [walk EXCEPT !.order = <<>>,
                            !.seen = @ \cup {[files |-> walk.files, order |-> walk.order,
                                              digest |-> DirectoryHashOf(walk.order)]}]
    /\ UNCHANGED <<fs, config, archive, stop, http, held, packs, sinceScan, mu, reader, pc, entries, sleepLeft, events,
                   watching, phase, zips, fsChanges, manualReq, hist, obs>>

\* between two fingerprintings one file of the directory as it first was is
\* rewritten: another modification time, another size, or other bytes
TouchFile ==
    /\ walk.order = <<>>
    /\ walk.files = BaseFiles
    /\ \E f \in walk.files :
       \E g \in {[f EXCEPT !.mtime = t] : t \in 0..MaxMtime}
                \cup {[f EXCEPT !.size = f.size + 1], [f EXCEPT !.content = 2]} :
          /\ g # f
          /\ walk' = [walk EXCEPT !.files = (@ \ {f}) \cup {g}]
    /\ UNCHANGED <<fs, config, archive, stop, http, held, packs, sinceScan, mu, reader, pc, entries, sleepLeft, events,
                   watching, phase, zips, fsChanges, manualReq, hist, obs>>

(***************************************************************************)
(* scanPacks, by goroutine p.                                              *)
(***************************************************************************)
\* (a scanPacks that takes no lock, for comparison)
LockFree_NoMutex(p) == TRUE

\* pm.mu.Lock() is granted
LockFree(p) == mu = "free" /\ reader = None

\* pm.mu.Lock(); oldPacks (names, for the log only); pm.packs = make(...);
\* if pm.isResourcePackDirectory(pm.packsDirectory) { load the root }
ScanLock(p) ==
    /\ pc[p] = "lock"
    /\ LockFree(p)
    /\ mu' = p
    /\ packs' = LoadRoot(EmptyMap, fs)
    /\ pc' = [pc EXCEPT ![p] = "readdir"]
    /\ hist' = [hist EXCEPT !.before = packs, !.whole = FALSE, !.writers = {p},
                            !.diskReader = p, !.started[p] = @ + 1]
    /\ UNCHANGED <<fs, config, archive, stop, http, walk, held, sinceScan, reader, entries, sleepLeft, events, watching,
                   phase, zips, fsChanges, manualReq, obs>>

\* (a scanPacks that returns without unlocking, for comparison)
Unlock_Never(p) == mu

\* the deferred pm.mu.Unlock()
Unlock(p) == IF mu = p THEN "free" ELSE mu

\* entries, err := os.ReadDir(pm.packsDirectory); on error return it.  The
\* call fails (permissions, descriptors exhausted, root removed) or lists the root
ScanReadDir(p) ==
    /\ pc[p] = "readdir"
    /\ \E listed \in {Err, ReadDir(fs)} :
          IF listed.err
          THEN /\ pc' = [pc EXCEPT ![p] = After(p)]
               /\ mu' = Unlock(p)
               /\ entries' = entries
               /\ hist' = [hist EXCEPT !.diskReader = p, !.result = "err",
                                       !.failed = TRUE,
                                       !.wfailed = IF p = Watcher THEN TRUE ELSE @]
          ELSE /\ pc' = [pc EXCEPT ![p] = "loop"]
               /\ mu' = mu
               /\ entries' = [entries EXCEPT ![p] = listed.val]
               /\ hist' = [hist EXCEPT !.diskReader = p]
    /\ UNCHANGED <<fs, config, archive, stop, http, walk, held, packs, sinceScan, reader, sleepLeft, events, watching,
                   phase, zips, fsChanges, manualReq, obs>>

\* (a loop that passes over the entries whose pack was in oldPacks, for comparison)
ScanEntry_SkipKnown(p) ==
    /\ pc[p] = "loop"
    /\ entries[p] # <<>>
    /\ packs' = IF hist.before[TrimSuffix(Head(entries[p]), ZipExt)] # None THEN packs
                ELSE LoadEntry(packs, fs, Head(entries[p]))
    /\ entries' = [entries EXCEPT ![p] = Tail(@)]
    /\ hist' = [hist EXCEPT !.writers = @ \cup {p}, !.diskReader = p]
    /\ UNCHANGED <<fs, config, archive, stop, http, walk, held, sinceScan, mu, reader, pc, sleepLeft, events, watching,
                   phase, zips, fsChanges, manualReq, obs>>

\* (a loop that overwrites the ResourcePack object a name already had, where
\* a caller still holds it, for comparison)
ScanEntry_InPlace(p) ==
    /\ pc[p] = "loop"
    /\ entries[p] # <<>>
    /\ packs' = LoadEntry(packs, fs, Head(entries[p]))
    /\ entries' = [entries EXCEPT ![p] = Tail(@)]
    /\ hist' = [hist EXCEPT !.writers = @ \cup {p}, !.diskReader = p]
    /\ held' = IF held = None THEN held
               ELSE [held EXCEPT !.objects =
                        [n \in PackNames |->
                            IF @[n] # None /\ packs'[n] # packs[n] THEN packs'[n] ELSE @[n]]]
    /\ UNCHANGED <<fs, config, archive, stop, http, walk, sinceScan, mu, reader, pc, sleepLeft, events, watching,
                   phase, zips, fsChanges, manualReq, obs>>

\* one iteration of: for _, entry := range entries
ScanEntry(p) ==
    /\ pc[p] = "loop"
    /\ entries[p] # <<>>
    /\ packs' = LoadEntry(packs, fs, Head(entries[p]))
    /\ entries' = [entries EXCEPT ![p] = Tail(@)]
    /\ hist' = [hist EXCEPT !.writers = @ \cup {p}, !.diskReader = p]
    /\ UNCHANGED <<fs, config, archive, stop, http, walk, held, sinceScan, mu, reader, pc, sleepLeft, events, watching,
                   phase, zips, fsChanges, manualReq, obs>>

\* after the loop: the added/removed log, pm.lastScanTime = time.Now(), return nil
ScanFinish(p) ==
    /\ pc[p] = "loop"
    /\ entries[p] = <<>>
    /\ sinceScan' = 0
    /\ mu' = Unlock(p)
    /\ pc' = [pc EXCEPT ![p] = After(p)]
    /\ hist' = [hist EXCEPT !.whole = (hist.writers = {p}), !.result = "ok",
                            !.published = IF hist.writers = {p} THEN @ \cup {packs} ELSE @]
    /\ UNCHANGED <<fs, config, archive, stop, http, walk, held, packs, reader, entries, sleepLeft, events, watching,
                   phase, zips, fsChanges, manualReq, obs>>

scanPacks(p) ==
    \/ ScanLock(p)
    \/ ScanReadDir(p)
    \/ ScanEntry(p)
    \/ ScanFinish(p)

(***************************************************************************)
(* NewPacksManager after its initial scan: startFileMonitoring.            *)
(***************************************************************************)
\* config.FileMonitor false: nothing is started.  Else fsnotify.NewWatcher
\* may fail (no goroutine), watcher.Add may fail (the goroutine runs, nothing
\* is watched), or both succeed.  The error is logged; pm is returned.
startFileMonitoring ==
    /\ pc[Main] = "monitor"
    /\ \E outcome \in IF config.FileMonitor THEN {"nowatcher", "noadd", "ok"} ELSE {"disabled"} :
          /\ pc' = [pc EXCEPT ![Main] = "serving",
                              ![Watcher] = IF outcome \in {"noadd", "ok"} THEN "idle" ELSE "off"]
          /\ watching' = (outcome = "ok")
    /\ UNCHANGED <<fs, config, archive, stop, http, walk, held, packs, sinceScan, mu, reader, entries, sleepLeft, events,
                   phase, zips, fsChanges, manualReq, hist, obs>>

(***************************************************************************)
(* The watcher goroutine.                                                  *)
(***************************************************************************)
\* (a handler that never finds itself in the cooldown, for comparison)
InCooldown_Never(since) == FALSE

\* time.Since(pm.lastScanTime) < pm.scanCooldown
InCooldown(since) == since < CooldownTicks

\* (a handler that takes the write lock before its sleep, for comparison)
HandleEvent_LockFirst ==
    /\ pc[Watcher] = "idle"
    /\ events > 0
    /\ events' = events - 1
    /\ IF InCooldown(sinceScan)
       THEN /\ pc' = pc
            /\ sleepLeft' = sleepLeft
            /\ mu' = mu
       ELSE /\ mu = "free"
            /\ reader = None
            /\ mu' = Watcher
            /\ pc' = [pc EXCEPT ![Watcher] = "sleep"]
            /\ sleepLeft' = SettleTicks
    /\ UNCHANGED <<fs, config, archive, stop, http, walk, held, packs, sinceScan, reader, entries, watching,
                   phase, zips, fsChanges, manualReq, hist>>

\* case event := <-watcher.Events: pm.handleFileEvent(event), up to its sleep
HandleEvent ==
    /\ pc[Watcher] = "idle"
    /\ events > 0
    /\ events' = events - 1
    /\ IF InCooldown(sinceScan)
       THEN /\ pc' = pc
            /\ sleepLeft' = sleepLeft
       ELSE /\ pc' = [pc EXCEPT ![Watcher] = "sleep"]
            /\ sleepLeft' = SettleTicks
    /\ UNCHANGED <<fs, config, archive, stop, http, walk, held, packs, sinceScan, mu, reader, entries, watching,
                   phase, zips, fsChanges, manualReq, hist>>

handleFileEvent == HandleEvent /\ UNCHANGED obs

\* the same, observed
handleFileEventObserved == HandleEvent /\ obs' = [obs EXCEPT !.handled = Append(@, sinceScan)]

\* time.Sleep(500 * time.Millisecond) returns; pm.scanPacks() is called
handleFileEventWake ==
    /\ pc[Watcher] = "sleep"
    /\ sleepLeft = 0
    /\ pc' = [pc EXCEPT ![Watcher] = "lock"]
    /\ UNCHANGED <<fs, config, archive, stop, http, walk, held, packs, sinceScan, mu, reader, entries, sleepLeft, events,
                   watching, phase, zips, fsChanges, manualReq, hist, obs>>

\* case <-pm.fileMonitorStop: return; a receive from the closed channel is
\* always ready, and select takes any one of its ready cases
WatcherReturn ==
    /\ pc[Watcher] = "idle"
    /\ stop.closed
    /\ pc' = [pc EXCEPT ![Watcher] = "returned"]
    /\ UNCHANGED <<fs, config, archive, http, walk, held, packs, sinceScan, mu, reader, entries, sleepLeft,
                   events, watching, phase, zips, fsChanges, manualReq, hist, obs, stop>>

\* pm.fileWatcher != nil: fsnotify.NewWatcher succeeded in startFileMonitoring
FileWatcherSet == pc[Watcher] # "off"

\* StopFileMonitoring up to close(pm.fileMonitorStop); closing a channel that
\* is closed already panics
StopFileMonitoring ==
    /\ pc[Main] = "serving"
    /\ stop.calls < MaxStops
    /\ IF ~FileWatcherSet
       THEN /\ stop' = [stop EXCEPT !.calls = @ + 1]
            /\ pc' = pc
       ELSE IF stop.closed
       THEN /\ stop' = [stop EXCEPT !.calls = @ + 1, !.panicked = TRUE]
            /\ pc' = [pc EXCEPT ![Main] = "panicked"]
       ELSE /\ stop' = [stop EXCEPT !.calls = @ + 1, !.closed = TRUE]
            /\ pc' = [pc EXCEPT ![Main] = "closing"]
    /\ UNCHANGED <<fs, config, archive, http, walk, held, packs, sinceScan, mu, reader, entries, sleepLeft,
                   events, watching, phase, zips, fsChanges, manualReq, hist, obs>>

\* StopFileMonitoring: pm.fileWatcher.Close() ends the subscription and drops
\* what was waiting
StopFileMonitoringClose ==
    /\ pc[Main] = "closing"
    /\ pc' = [pc EXCEPT ![Main] = "serving"]
    /\ watching' = FALSE
    /\ events' = 0
    /\ UNCHANGED <<fs, config, archive, http, walk, held, packs, sinceScan, mu, reader, entries, sleepLeft,
                   phase, zips, fsChanges, manualReq, hist, obs, stop>>

(***************************************************************************)
(* The HTTP handlers, served once NewPacksManager has returned.            *)
(***************************************************************************)
\* (a RescanPacks that honours the cooldown, for comparison)
RescanPacks_Cooldown(m) ==
    pc' = IF sinceScan < CooldownTicks THEN pc ELSE [pc EXCEPT ![m] = "lock"]

\* RescanPacks: return pm.scanPacks()
RescanPacks(m) == pc' = [pc EXCEPT ![m] = "lock"]

\* setupRoutes: the routes registered on the gin engine
setupRoutes ==
    { [method |-> "GET", path |-> "/",                handler |-> "indexHandler"],
      [method |-> "GET", path |-> "/api/packs",       handler |-> "listPacksHandler"],
      [method |-> "GET", path |-> "/api/packs/:name", handler |-> "getPackHandler"],
      [method |-> "GET", path |-> "/download/:name",  handler |-> "downloadPackHandler"],
      [method |-> "GET", path |-> "/hash/:name",      handler |-> "hashHandler"],
      [method |-> "GET", path |-> "/api/rescan",      handler |-> "rescanPacksHandler"],
      [method |-> "GET", path |-> "/debug",           handler |-> "debugHandler"] }

\* the route a handler is registered under
RouteOf(handler) == CHOOSE r \in setupRoutes : r.handler = handler

\* the handlers the engine finds for a request: method and path must both match
HandlersFor(method, path) ==
    {r.handler : r \in {q \in setupRoutes : q.method = method /\ q.path = path}}

\* rescanPacksHandler: go func() { s.packsManager.RescanPacks() }()
rescanPacksHandler(m) ==
    /\ pc[Main] = "serving"
    /\ pc[m] = "gone"
    /\ manualReq < MaxManual
    /\ manualReq' = manualReq + 1
    /\ RescanPacks(m)
    /\ hist' = [hist EXCEPT !.inCooldown = InCooldown(sinceScan)]
    /\ http' = [method |-> RouteOf("rescanPacksHandler").method,
                path |-> RouteOf("rescanPacksHandler").path,
                status |-> 200, rescan |-> TRUE]
    /\ UNCHANGED <<fs, config, archive, stop, walk, held, packs, sinceScan, mu, reader, entries, sleepLeft, events,
                   watching, phase, zips, fsChanges, obs>>

\* pm.mu.RLock() is granted
RLockFree == mu = "free"

\* GetAllPacks: RLock, copy the records of pm.packs
GetAllPacks ==
    /\ pc[Main] = "serving"
    /\ reader = None
    /\ RLockFree
    /\ reader' = [got |-> packs, whole |-> hist.whole]
    /\ UNCHANGED <<fs, config, archive, stop, http, walk, held, packs, sinceScan, mu, pc, entries, sleepLeft, events,
                   watching, phase, zips, fsChanges, manualReq, hist, obs>>

\* GetAllPacks: the deferred RUnlock, return
GetAllPacksReturn ==
    /\ reader # None
    /\ reader' = None
    /\ UNCHANGED <<fs, config, archive, stop, http, walk, held, packs, sinceScan, mu, pc, entries, sleepLeft, events,
                   watching, phase, zips, fsChanges, manualReq, hist, obs>>

\* the same, the caller keeping the slice: objects are the ResourcePack
\* objects its elements point to, by name, with their fields as they are;
\* returned is what the fields were when the slice was returned; visited
\* are the elements the caller's loop has been through
GetAllPacksReturnHeld ==
    /\ reader # None
    /\ held = None
    /\ reader' = None
    /\ held' = [objects |-> reader.got, returned |-> reader.got, visited |-> {}]
    /\ UNCHANGED <<fs, config, archive, stop, http, walk, packs, sinceScan, mu, pc, entries, sleepLeft, events,
                   watching, phase, zips, fsChanges, manualReq, hist, obs>>

\* the caller's loop over the slice reaches one more element
CallerVisit ==
    /\ held # None
    /\ \E n \in PackNames :
          /\ held.objects[n] # None
          /\ n \notin held.visited
          /\ held' = [held EXCEPT !.visited = @ \cup {n}]
    /\ UNCHANGED <<fs, config, archive, stop, http, walk, packs, sinceScan, mu, reader, pc, entries, sleepLeft,
                   events, watching, phase, zips, fsChanges, manualReq, hist, obs>>

\* GetPack: RLock, pm.packs[name], RUnlock
GetPack(name) == packs[name]

\* filepath.Walk(dirPath, ...) of CreateZipFromDirectory
WalkPath(f, dirPath) ==
    IF dirPath = RootPath THEN WalkRoot(f)
    ELSE LET e == f.children[dirPath[Len(dirPath)]]
         IN IF e = None THEN Err
            ELSE IF ~e.isDir THEN Ok({FileRec(<<>>, e.mtime, e.size)})
            ELSE WalkDir(e)

\* filepath.Join(pm.tempDir, fmt.Sprintf("%s_%d.zip", packName, time.Now().Unix())):
\* the pack name and the Unix second, which is the present one
ZipPath(packName) == [name |-> packName, ago |-> 0]

\* CreateZipFromDirectory: the path of the archive, or Err when the walk fails
CreateZipFromDirectory(dirPath, packName, walked) ==
    IF walked.err THEN Err ELSE Ok(ZipPath(packName))

\* what may go wrong while the archive is written: os.Create, os.Open or
\* io.Copy of a file, the deferred zipWriter.Close()
ZipFaults == {"none", "create", "copy", "close"}

\* CreateZipFromDirectory step by step, under a fault: what it returns (path,
\* err) and what it has written: the entries of the archive and whether the
\* deferred zipWriter.Close() has written the central directory.  The walk
\* stops at the first error; the error of the deferred Close is dropped
CreateZipFromDirectoryUnder(dirPath, packName, walked, fault) ==
    IF fault = "create"
    THEN [path |-> None, err |-> TRUE, entries |-> {}, finalized |-> FALSE]
    ELSE IF walked.err
    THEN [path |-> None, err |-> TRUE, entries |-> {}, finalized |-> TRUE]
    ELSE IF fault = "copy" /\ walked.val # {}
    THEN [path |-> None, err |-> TRUE, entries |-> {}, finalized |-> TRUE]
    ELSE [path |-> ZipPath(packName), err |-> FALSE,
          entries |-> {f.rel : f \in walked.val}, finalized |-> fault # "close"]

\* a call of CreateZipFromDirectory for an indexed directory pack, as
\* downloadPackHandler makes it
CreateZip(name, fault) ==
    /\ pc[Main] = "serving"
    /\ RLockFree
    /\ LET resourcePack == GetPack(name)
       IN /\ resourcePack # None
          /\ resourcePack.IsDirectory
          /\ archive' = [made |-> CreateZipFromDirectoryUnder(
                                     resourcePack.Path, resourcePack.Name,
                                     WalkPath(fs, resourcePack.Path), fault),
                         walked |-> WalkPath(fs, resourcePack.Path)]
    /\ UNCHANGED <<fs, config, stop, http, walk, held, packs, sinceScan, mu, reader, pc, entries,
                   sleepLeft, events, watching, phase, zips, fsChanges, manualReq, hist, obs>>

\* downloadPackHandler for a directory pack
downloadPackHandler(name) ==
    /\ pc[Main] = "serving"
    /\ RLockFree
    /\ hist.zipsMade < MaxZips
    /\ LET resourcePack == GetPack(name)
       IN /\ resourcePack # None
          /\ resourcePack.IsDirectory
          /\ LET made == CreateZipFromDirectory(resourcePack.Path, resourcePack.Name,
                                                WalkPath(fs, resourcePack.Path))
             IN IF made.err
                THEN UNCHANGED <<zips, hist>>
                ELSE /\ zips' = zips \cup {made.val}
                     /\ hist' = [hist EXCEPT !.zipsMade = @ + 1,
                                             !.zipClash = @ \/ made.val \in zips]
    /\ UNCHANGED <<fs, config, archive, stop, http, walk, held, packs, sinceScan, mu, reader, pc, entries, sleepLeft, events,
                   watching, phase, fsChanges, manualReq, obs>>

(***************************************************************************)
(* The environment: the filesystem changes, time passes.                   *)
(***************************************************************************)
BarManifest == ManifestFile(TRUE, Doc(JObj(JStr(<<"Bar">>), JNum(90))))
FooManifest == ManifestFile(TRUE, Doc(JObj(JStr(<<"Foo">>), JNum(150))))
BazManifest == ManifestFile(TRUE, Doc(JObj(JStr(<<"Baz">>), JNum(340))))

\* what a file of each name is when it exists: a directory pack, an archive
\* without a manifest (of the directory's pack name), a directory pack of the
\* root's name, an archive with a manifest (of the root's name)
Typical(name) ==
    IF name = SortedNames[1]
    THEN DirEntry(BarManifest, "none", 1, {FileRec(AssetRel, 1, 3), FileRec(ManifestRel, 1, 2)})
    ELSE IF name = SortedNames[2] THEN FileEntry(None, "none", 1, 4, 2)
    ELSE IF name = SortedNames[3]
    THEN DirEntry(BazManifest, "none", 1, {FileRec(AssetRel, 1, 6), FileRec(ManifestRel, 1, 2)})
    ELSE FileEntry(FooManifest, "none", 1, 5, 1)

RootEntry(manifest, err) ==
    DirEntry(manifest, err, 1, IF manifest = None THEN {} ELSE {FileRec(ManifestRel, 1, 2)})

\* (a watcher that reports changes though nothing was subscribed, for comparison)
Notify_Unsubscribed == IF pc[Watcher] # "off" THEN 1 ELSE 0

\* a change under the root raises one notification when the root is watched
Notify == IF watching /\ pc[Watcher] # "off" THEN 1 ELSE 0

\* the watch is on the packs directory alone: a change to an entry of the root
\* (depth 1) is reported, a change further down is not
NotifyAt(depth) == IF depth = 1 THEN Notify ELSE 0

\* the tree becomes f by a change depth levels below the root
FsChangedAt(f, limit, depth) ==
    /\ fsChanges < limit
    /\ fs' = f
    /\ fsChanges' = fsChanges + 1
    /\ events' = events + NotifyAt(depth)
    /\ UNCHANGED <<config, archive, stop, http, walk, held, packs, sinceScan, mu, reader, pc, entries, sleepLeft,
                   watching, phase, zips, manualReq, hist>>

FsChanged(f, limit) == FsChangedAt(f, limit, 1)

\* the names under the root that come and go while the program runs
ChangingNames == {SortedNames[1], SortedNames[2], SortedNames[4]}

\* a file or directory is created under the root, or removed
ToggleChild(name, limit) ==
    FsChanged([fs EXCEPT !.children[name] = IF @ = None THEN Typical(name) ELSE None], limit)

\* the root's own pack.mcmeta is created or removed
ToggleRootManifest(limit) ==
    FsChanged([fs EXCEPT !.root = RootEntry(IF @.manifest = None THEN BarManifest ELSE None,
                                            "none")], limit)

FsToggleChild(name) == ToggleChild(name, MaxFsChanges) /\ UNCHANGED obs

FsToggleRootManifest == ToggleRootManifest(MaxFsChanges) /\ UNCHANGED obs

\* the notification a change raises, observed
ObserveArrival ==
    obs' = IF Notify = 0 THEN obs
           ELSE [obs EXCEPT !.arrived = @ + 1, !.sinceEvent = 0,
                            !.apart = IF obs.arrived = 0 THEN @ ELSE Append(@, obs.sinceEvent)]

FsToggleChildObserved(name) == ToggleChild(name, MaxEvents) /\ ObserveArrival

\* the pack.mcmeta inside a pack directory is rewritten with other content
RewriteNestedManifest(name, limit) ==
    /\ fs.children[name] # None
    /\ fs.children[name].isDir
    /\ fs.children[name].manifest # None
    /\ FsChangedAt([fs EXCEPT !.children[name].manifest =
                                 IF @ = BarManifest THEN BazManifest ELSE BarManifest],
                   limit, 2)

\* a change, observed: how deep it was, whether it came with the watcher idle,
\* nothing waiting and the cooldown over, and the watcher's scans until then
ObserveChange(depth) ==
    obs' = [obs EXCEPT !.last = [depth |-> depth,
                                 outside |-> /\ watching
                                             /\ pc[Watcher] = "idle"
                                             /\ events = 0
                                             /\ ~InCooldown(sinceScan),
                                 started |-> hist.started[Watcher]]]

FsToggleChildWatched(name) == ToggleChild(name, MaxFsChanges) /\ ObserveChange(1)

FsToggleRootManifestWatched == ToggleRootManifest(MaxFsChanges) /\ ObserveChange(1)

FsRewriteNestedManifestWatched(name) ==
    RewriteNestedManifest(name, MaxFsChanges) /\ ObserveChange(2)

FsToggleRootManifestObserved == ToggleRootManifest(MaxEvents) /\ ObserveArrival

\* 500ms pass; the watcher goroutine, when idle, takes a waiting notification
\* before any time passes
Elapse ==
    /\ ~(pc[Watcher] = "idle" /\ events > 0)
    /\ sinceScan' = Min(sinceScan + 1, CooldownTicks)
    /\ sleepLeft' = Max(sleepLeft - 1, 0)
    /\ UNCHANGED <<fs, config, archive, stop, http, walk, held, packs, mu, reader, pc, entries, events, watching,
                   fsChanges, manualReq, hist>>

\* where no archive is made, the place within the Unix second is not followed
Tick == Elapse /\ UNCHANGED <<phase, zips, obs>>

TickObserved ==
    /\ Elapse
    /\ obs' = [obs EXCEPT !.sinceEvent = Min(@ + 1, ApartCap)]
    /\ UNCHANGED <<phase, zips>>

\* the Unix second advances every TicksPerSecond ticks; the archives made
\* before are then of an earlier second
TickSecond ==
    /\ Elapse
    /\ phase' = (phase + 1) % TicksPerSecond
    /\ zips' = IF phase + 1 = TicksPerSecond THEN {[z EXCEPT !.ago = 1] : z \in zips} ELSE zips
    /\ UNCHANGED obs

(***************************************************************************)
(* The specifications.                                                     *)
(***************************************************************************)
\* the tree of the end-to-end scenario: foo.zip with a manifest, bar/ with one
ScenarioFs ==
    [root |-> RootEntry(None, "none"),
     children |-> [n \in FileNames |-> IF n \in {SortedNames[2], SortedNames[3]} THEN None ELSE Typical(n)]]

\* viper.SetDefault("packs.file_monitor_interval", 1.0), in ticks
FileMonitorIntervalDefault == 1 * TicksPerSecond

\* packs.Config as main builds it
Config(monitor, interval) == [FileMonitor |-> monitor, FileMonitorInterval |-> interval]

\* NewPacksManager has built pm (empty map, zero lastScanTime) and is about to
\* make its initial scan
InitWithConfig(f, cfg) ==
    /\ fs = f
    /\ config = cfg
    /\ packs = EmptyMap
    /\ sinceScan = CooldownTicks
    /\ mu = "free"
    /\ reader = None
    /\ pc = [p \in Procs |-> IF p = Main THEN "lock" ELSE IF p = Watcher THEN "off" ELSE "gone"]
    /\ entries = [p \in Procs |-> <<>>]
    /\ sleepLeft = 0
    /\ events = 0
    /\ watching = FALSE
    /\ phase = 0
    /\ zips = {}
    /\ fsChanges = 0
    /\ manualReq = 0
    /\ hist = HistInit
    /\ obs = ObsInit
    /\ walk = WalkInit
    /\ held = None
    /\ http = None
    /\ stop = StopInit
    /\ archive = None

InitWith(f, monitor) == InitWithConfig(f, Config(monitor, FileMonitorIntervalDefault))

Init == \E monitor \in BOOLEAN : InitWith(ScenarioFs, monitor)

\* scans from every origin, readers and a changing filesystem
Next ==
    \/ \E p \in Procs : scanPacks(p)
    \/ startFileMonitoring
    \/ handleFileEvent
    \/ handleFileEventWake
    \/ \E m \in ManualProcs : rescanPacksHandler(m)
    \/ GetAllPacks
    \/ GetAllPacksReturn
    \/ \E name \in ChangingNames : FsToggleChild(name)
    \/ FsToggleRootManifest
    \/ Tick

Spec == Init /\ [][Next]_vars

\* the watcher alone: no rescan is requested
NextWatch ==
    \/ \E p \in {Main, Watcher} : scanPacks(p)
    \/ startFileMonitoring
    \/ handleFileEventObserved
    \/ handleFileEventWake
    \/ \E name \in ChangingNames : FsToggleChildObserved(name)
    \/ FsToggleRootManifestObserved
    \/ TickObserved

SpecWatch == InitWith(ScenarioFs, TRUE) /\ [][NextWatch]_vars

\* downloads of directory packs, with rescans
NextZip ==
    \/ \E p \in {Main} \cup ManualProcs : scanPacks(p)
    \/ startFileMonitoring
    \/ \E m \in ManualProcs : rescanPacksHandler(m)
    \/ \E name \in PackNames : downloadPackHandler(name)
    \/ TickSecond

SpecZip == InitWith(ScenarioFs, FALSE) /\ [][NextZip]_vars

\* one scan of each of many trees: every kind of manifest, every load error
ManifestContents ==
    {Unparseable, Doc(JAbsent), Doc(JNull), Doc(JStr(<<"Foo">>)),
     Doc(JObj(JStr(<<"Foo">>), JNum(150))), Doc(JObj(JStr(<<"Foo">>), JNum(157))),
     Doc(JObj(JStr(<<>>), JNum(150))),
     Doc(JObj(JAbsent, JNum(150))), Doc(JObj(JNum(70), JNum(150))),
     Doc(JObj(JStr(<<"Foo">>), JAbsent)), Doc(JObj(JStr(<<"Foo">>), JStr(<<"15">>))),
     Doc(JObj(JAbsent, JAbsent)), Doc(JObj(JNull, JNull))}

Manifests ==
    {None, ManifestFile(FALSE, Unparseable)}
    \cup {ManifestFile(TRUE, c) : c \in ManifestContents}

EntryErrors == {"none", "stat", "read"}

DirFiles(manifest) ==
    {FileRec(AssetRel, 1, 3)} \cup (IF manifest = None THEN {} ELSE {FileRec(ManifestRel, 1, 2)})

\* the trees: a/ and a.zip of every kind, b.zip and the root of a few
LoadTrees ==
    {[root |-> r, children |-> [n \in FileNames |->
          IF n = SortedNames[1] THEN a ELSE IF n = SortedNames[2] THEN az
          ELSE IF n = SortedNames[4] THEN bz ELSE None]] :
       r \in {RootEntry(None, "none"), RootEntry(BarManifest, "none"),
              RootEntry(BarManifest, "stat")},
       a \in {None} \cup {DirEntry(m, e, 1, DirFiles(m)) : m \in Manifests, e \in EntryErrors},
       az \in {None} \cup {FileEntry(m, e, 1, 4, 2) : m \in Manifests, e \in EntryErrors},
       bz \in {None, Typical(SortedNames[4]), FileEntry(FooManifest, "read", 1, 5, 1)}}

InitLoad == \E f \in LoadTrees : InitWith(f, FALSE)

NextLoad == scanPacks(Main)

SpecLoad == InitLoad /\ [][NextLoad]_vars

\* the initial scan of trees with entries of every kind under each name: a
\* regular file without the archive suffix, a directory with the suffix, a
\* directory whose only manifest lies one level further down
\* an entry whose os.Stat fails
Failing(e) == [e EXCEPT !.err = "stat"]

PlainFile == FileEntry(None, "none", 1, 4, 2)

NestedPackDir == DirEntry(None, "none", 1, {FileRec(<<SortedNames[1]>> \o ManifestRel, 1, 2)})

ShapeTrees ==
    {[root |-> r, children |-> [n \in FileNames |->
          IF n = SortedNames[1] THEN a ELSE IF n = SortedNames[2] THEN az
          ELSE IF n = SortedNames[3] THEN b ELSE bz]] :
       r \in {RootEntry(None, "none"), RootEntry(BarManifest, "none"),
              RootEntry(BarManifest, "stat")},
       a \in {None, PlainFile, Typical(SortedNames[1]), Failing(Typical(SortedNames[1])),
              DirEntry(None, "none", 1, DirFiles(None))},
       az \in {None, Typical(SortedNames[2]), Failing(Typical(SortedNames[2])),
               DirEntry(BazManifest, "none", 1, DirFiles(BazManifest)),
               DirEntry(None, "none", 1, DirFiles(None))},
       b \in {None, PlainFile, NestedPackDir},
       bz \in {None, Typical(SortedNames[4])}}

InitShape == \E f \in ShapeTrees : InitWith(f, FALSE)

NextShape == scanPacks(Main)

SpecShape == InitShape /\ [][NextShape]_vars

\* scans and rescans of trees that hold still, with every clash of pack
\* names: the root, b/ and b.zip; a/ and a.zip
NameTrees ==
    {[root |-> r, children |-> ch] :
       r \in {RootEntry(None, "none"), RootEntry(BarManifest, "none"),
              RootEntry(BarManifest, "stat")},
       ch \in {c \in [FileNames -> {None} \cup {Typical(n) : n \in FileNames}
                                          \cup {Failing(Typical(n)) : n \in FileNames}] :
                 \A n \in FileNames : c[n] \in {None, Typical(n), Failing(Typical(n))}}}

InitNames == \E f \in NameTrees : InitWith(f, FALSE)

NextNames ==
    \/ \E p \in {Main} \cup ManualProcs : scanPacks(p)
    \/ startFileMonitoring
    \/ \E m \in ManualProcs : rescanPacksHandler(m)

SpecNames == InitNames /\ [][NextNames]_vars

\* fingerprintings of a directory, its files met in every order
NextHash ==
    \/ WalkVisit
    \/ WalkReturn
    \/ TouchFile

SpecHash == InitWith(ScenarioFs, FALSE) /\ [][NextHash]_vars

\* a caller holds the slice of GetAllPacks while the tree changes and is
\* rescanned
NextHeld ==
    \/ \E p \in {Main} \cup ManualProcs : scanPacks(p)
    \/ startFileMonitoring
    \/ \E m \in ManualProcs : rescanPacksHandler(m)
    \/ GetAllPacks
    \/ GetAllPacksReturnHeld
    \/ CallerVisit
    \/ \E name \in ChangingNames : FsToggleChild(name)

SpecHeld == InitWith(ScenarioFs, FALSE) /\ [][NextHeld]_vars

\* requests to the rescan path, by either method
Methods == {"GET", "POST"}

RescanPath == "/api/rescan"

\* ServeHTTP: the engine looks the request up; with no route for the method
\* and path it answers 404 and calls no handler
ServeHTTP(method, path, m) ==
    IF "rescanPacksHandler" \in HandlersFor(method, path)
    THEN rescanPacksHandler(m)
    ELSE /\ pc[Main] = "serving"
         /\ HandlersFor(method, path) = {}
         /\ http' = [method |-> method, path |-> path, status |-> 404, rescan |-> FALSE]
         /\ UNCHANGED <<fs, config, archive, stop, walk, held, packs, sinceScan, mu, reader, pc, entries,
                        sleepLeft, events, watching, phase, zips, fsChanges, manualReq,
                        hist, obs>>

NextHttp ==
    \/ \E p \in {Main} \cup ManualProcs : scanPacks(p)
    \/ startFileMonitoring
    \/ \E method \in Methods, m \in ManualProcs : ServeHTTP(method, RescanPath, m)
    \/ \E name \in ChangingNames : FsToggleChild(name)

SpecHttp == InitWith(ScenarioFs, FALSE) /\ [][NextHttp]_vars

\* archives made of directory packs under every fault, with rescans
NextArchive ==
    \/ \E p \in {Main} \cup ManualProcs : scanPacks(p)
    \/ startFileMonitoring
    \/ \E m \in ManualProcs : rescanPacksHandler(m)
    \/ \E name \in PackNames, fault \in ZipFaults : CreateZip(name, fault)
    \/ \E name \in ChangingNames : FsToggleChild(name)

SpecArchive == InitWith(ScenarioFs, FALSE) /\ [][NextArchive]_vars

\* the watcher under several configured settle intervals: 0.5 s, 1 s, 1.5 s
Intervals == {1, 2, 3}

InitInterval == \E interval \in Intervals : InitWithConfig(ScenarioFs, Config(TRUE, interval))

NextInterval ==
    \/ \E p \in {Main, Watcher} : scanPacks(p)
    \/ startFileMonitoring
    \/ handleFileEvent
    \/ handleFileEventWake
    \/ \E name \in ChangingNames : FsToggleChild(name)
    \/ Tick

SpecInterval == InitInterval /\ [][NextInterval]_vars

\* scans from every origin and readers, an archive coming and going, under
\* a scheduler that lets every goroutine run; sync.RWMutex keeps new readers
\* out while a Lock call waits, so a scan that finds the lock free again and
\* again is not passed over for ever.  Rescan requests come one at a time
LiveProcs == {Main, Watcher, "m1"}

NextLive ==
    \/ \E p \in LiveProcs : scanPacks(p)
    \/ startFileMonitoring
    \/ handleFileEvent
    \/ handleFileEventWake
    \/ rescanPacksHandler("m1")
    \/ GetAllPacks
    \/ GetAllPacksReturn
    \/ FsToggleChild(SortedNames[2])
    \/ Tick

SpecLive ==
    /\ InitWith(ScenarioFs, TRUE)
    /\ [][NextLive]_vars
    /\ \A p \in LiveProcs : SF_vars(scanPacks(p))
    /\ WF_vars(GetAllPacksReturn)

\* the watcher, changes at the root and the shutdown
NextStop ==
    \/ \E p \in {Main, Watcher} : scanPacks(p)
    \/ startFileMonitoring
    \/ handleFileEvent
    \/ handleFileEventWake
    \/ WatcherReturn
    \/ StopFileMonitoring
    \/ StopFileMonitoringClose
    \/ \E name \in ChangingNames : FsToggleChild(name)
    \/ Tick

SpecStop == Init /\ [][NextStop]_vars

\* the same under a scheduler that lets every goroutine run and time pass
SpecStopFair ==
    /\ SpecStop
    /\ \A p \in {Main, Watcher} : WF_vars(scanPacks(p))
    /\ WF_vars(handleFileEvent)
    /\ WF_vars(handleFileEventWake)
    /\ WF_vars(WatcherReturn)
    /\ WF_vars(StopFileMonitoringClose)
    /\ WF_vars(Tick)

\* the watcher and changes at the root and below it: no rescan is requested
NextDeep ==
    \/ \E p \in {Main, Watcher} : scanPacks(p)
    \/ startFileMonitoring
    \/ handleFileEvent
    \/ handleFileEventWake
    \/ \E name \in ChangingNames : FsToggleChildWatched(name)
    \/ FsToggleRootManifestWatched
    \/ \E name \in ChangingNames : FsRewriteNestedManifestWatched(name)
    \/ Tick

SpecDeep == InitWith(ScenarioFs, TRUE) /\ [][NextDeep]_vars

(***************************************************************************)
(* Properties.                                                             *)
(***************************************************************************)
Scanning == {p \in Procs : pc[p] \in ScanningPcs}

RECURSIVE SumOver(_, _)
SumOver(f, S) ==
    IF S = {} THEN 0
    ELSE LET x == CHOOSE y \in S : TRUE
         IN f[x] + SumOver(f, S \ {x})

\* C1: when the latest scan failed as a whole (os.ReadDir of the root
\* returned an error), the index readers see is the index that was visible
\* before that scan started.
C1_FailedScanKeepsIndex ==
    (mu = "free" /\ hist.result = "err") => packs = hist.before

\* C2: once a scan has succeeded, what GetAllPacks copies is always an index
\* produced wholly by one successful scan.
C2_ReadersSeeWholeIndex ==
    (reader # None /\ hist.published # {}) => reader.got \in hist.published

\* C3: at most one scan reads the disk and builds an index at a time, and
\* when no scan runs the index is the one built, alone, by the scan that read
\* the disk last.
C3_ScansSerialized ==
    /\ Cardinality(Scanning) <= 1
    /\ (Scanning = {} /\ hist.diskReader # "nobody") => hist.writers = {hist.diskReader}

\* C3 witness: the watcher's scan is running while a manual rescan waits for
\* the lock
C3_Witness ==
    /\ pc[Watcher] \in ScanningPcs
    /\ \E m \in ManualProcs : pc[m] = "lock"

\* C5: every accepted rescan request runs a scan: each request has started
\* its scan or is waiting for the lock to start it, whatever the time since
\* lastScanTime.
C5_ManualAlwaysScans ==
    manualReq = SumOver(hist.started, ManualProcs)
                + Cardinality({m \in ManualProcs : pc[m] = "lock"})

\* C5 witness: a rescan requested within the cooldown is scanning
C5_Witness ==
    /\ manualReq = 1
    /\ hist.inCooldown
    /\ \E m \in ManualProcs : pc[m] \in ScanningPcs

\* two notifications have arrived 500ms (one tick) apart, and the watcher
\* has dealt with both
TwoNotifications ==
    /\ obs.arrived = 2
    /\ obs.apart = <<1>>
    /\ Len(obs.handled) = 2
    /\ pc[Watcher] = "idle"
    /\ events = 0

\* C4 as claimed: two notifications 500ms apart trigger exactly one scan.
C4_ExactlyOneScan ==
    TwoNotifications => hist.started[Watcher] = 1

\* C4, amended: they trigger exactly one scan when the first arrives at
\* least the cooldown after lastScanTime and the scan succeeds; two when that
\* scan fails (lastScanTime is left as it was); and when the first arrives
\* within the cooldown, one if the second arrives past it and none otherwise.
C4_OneScanPastCooldown ==
    TwoNotifications =>
        hist.started[Watcher] =
            IF obs.handled[1] >= CooldownTicks
            THEN (IF hist.wfailed THEN 2 ELSE 1)
            ELSE (IF obs.handled[2] >= CooldownTicks THEN 1 ELSE 0)

\* C4 witness: the first arrived past the cooldown, the scan succeeded, the
\* second was dropped
C4_Witness ==
    /\ TwoNotifications
    /\ obs.handled[1] >= CooldownTicks
    /\ ~hist.wfailed
    /\ hist.started[Watcher] = 1
    /\ obs.handled[2] < CooldownTicks

\* C6: with monitoring on, every change notified and no scan failed, once
\* the watcher has nothing left to do the index is what a scan of the
\* filesystem produces.
C6_IndexFollowsFilesystem ==
    (/\ pc[Main] = "serving"
     /\ watching
     /\ pc[Watcher] = "idle"
     /\ events = 0
     /\ obs.arrived = fsChanges
     /\ ~hist.failed)
    => packs = ScanIndex(fs)

\* C7: CreateZipFromDirectory never returns a path it returned before.
C7_DistinctArchivePaths == ~hist.zipClash

\* the candidates of a scan: the root (the empty name) and the names under it
Root == <<>>
Candidates == {Root} \cup FileNames

EntryOf(f, c) == IF c = Root THEN f.root ELSE f.children[c]
PathOf(c) == IF c = Root THEN RootPath ELSE Join(RootPath, c)

\* the place of a candidate in the order of a scan
OrderOf(c) == IF c = Root THEN 0 ELSE CHOOSE i \in 1..Len(SortedNames) : SortedNames[i] = c

\* c is put to a loader, and what the loader returns
IsCandidate(f, c) ==
    /\ EntryOf(f, c) # None
    /\ IF EntryOf(f, c).isDir THEN EntryOf(f, c).manifest # None ELSE HasSuffix(c, ZipExt)

Loaded(f, c) ==
    IF c = Root THEN loadDirectoryPack(RootPath, RootName, f.root, WalkRoot(f))
    ELSE IF f.children[c].isDir
    THEN loadDirectoryPack(PathOf(c), c, f.children[c], WalkDir(f.children[c]))
    ELSE loadZipPack(PathOf(c), c, f.children[c])

Indexed(path) == \E n \in PackNames : packs[n] # None /\ packs[n].Path = path

\* the initial scan has returned nil
ScannedOk == pc[Main] = "monitor" /\ hist.result = "ok"

\* C8: a directory (the root or one under it) without a manifest at its top
\* is in no index, and after a successful scan an archive without a manifest
\* that loads is in the index with the description "Resource Pack: <name>"
\* and the format 22.
C8_ManifestDecidesDirectories ==
    /\ \A c \in Candidates :
          (EntryOf(fs, c) # None /\ EntryOf(fs, c).isDir /\ EntryOf(fs, c).manifest = None)
          => ~Indexed(PathOf(c))
    /\ ScannedOk =>
          \A c \in FileNames :
             (/\ EntryOf(fs, c) # None
              /\ ~EntryOf(fs, c).isDir
              /\ EntryOf(fs, c).manifest = None
              /\ ~Loaded(fs, c).err)
             => LET name == TrimSuffix(c, ZipExt)
                IN /\ packs[name] # None
                   /\ packs[name].Path = PathOf(c)
                   /\ packs[name].Description = <<"Resource Pack: ">> \o name
                   /\ packs[name].PackFormat = 22

\* C8 witness: scanned, a/ without a manifest next to a.zip without one
C8_Witness ==
    /\ ScannedOk
    /\ fs.children[SortedNames[1]] # None
    /\ fs.children[SortedNames[1]].manifest = None
    /\ fs.children[SortedNames[1]].err = "none"
    /\ fs.children[SortedNames[2]] # None
    /\ fs.children[SortedNames[2]].manifest = None
    /\ packs[SortedNames[1]] # None

\* the manifest is a readable document with a "pack" object that holds a
\* string "description" and a number "pack_format"
ExactShape(m) ==
    /\ m # None
    /\ m.readable
    /\ m.content.valid
    /\ m.content.pack.t = "object"
    /\ m.content.pack.description.t = "string"
    /\ m.content.pack.pack_format.t = "number"

\* C9: an indexed pack whose manifest is not of that exact shape carries both
\* defaults, as if it had no manifest.
C9_OtherShapeIsAbsent ==
    \A c \in Candidates : \A n \in PackNames :
       (/\ EntryOf(fs, c) # None
        /\ packs[n] # None
        /\ packs[n].Path = PathOf(c)
        /\ ~ExactShape(EntryOf(fs, c).manifest))
       => /\ packs[n].Description = DefaultDescription(n)
          /\ packs[n].PackFormat = DefaultPackFormat

\* c is the last candidate of its pack name that loads
LastOfName(f, c) ==
    \A d \in Candidates :
       (IsCandidate(f, d) /\ ~Loaded(f, d).err /\ OrderOf(d) > OrderOf(c))
       => Loaded(f, d).val.Name # Loaded(f, c).val.Name

KindRank(f, c) == IF c = Root THEN 0 ELSE IF EntryOf(f, c).isDir THEN 1 ELSE 2

\* the candidates that load under the pack name n
LoadingAs(f, n) ==
    {c \in Candidates : IsCandidate(f, c) /\ ~Loaded(f, c).err /\ Loaded(f, c).val.Name = n}

\* no scan holds the lock and the latest scan to return has returned nil
LatestScanOk == mu = "free" /\ hist.result = "ok"

\* C11: every entry of the index is stored under its own name, and after a
\* successful scan the entry under a name is the pack of the candidate that
\* comes last among those loading under that name, in the order root,
\* subdirectory, archive; there is no entry where none loads.
C11_LastLoadedKept ==
    /\ \A n \in PackNames : packs[n] # None => packs[n].Name = n
    /\ LatestScanOk =>
          \A n \in PackNames :
             IF LoadingAs(fs, n) = {} THEN packs[n] = None
             ELSE \E c \in LoadingAs(fs, n) :
                     /\ \A d \in LoadingAs(fs, n) : KindRank(fs, d) <= KindRank(fs, c)
                     /\ packs[n] = Loaded(fs, c).val

\* C11 witness: the root, b/ and b.zip all load under the root's name, and
\* the archive is the one kept
C11_Witness ==
    /\ LatestScanOk
    /\ Cardinality(LoadingAs(fs, RootName)) = 3
    /\ packs[RootName] # None
    /\ packs[RootName].Path = PathOf(SortedNames[4])

\* C12: while the tree holds still, all successful scans produce one and the
\* same index: the same names with the same records (fingerprint, size,
\* description, format, modification time).
C12_ScanIdempotent == Cardinality(hist.published) <= 1

\* C12 witness: the initial scan and a rescan have both succeeded on a tree
\* with a directory pack and an archive
C12_Witness ==
    /\ ~hist.failed
    /\ mu = "free"
    /\ hist.started[Main] = 1
    /\ \E m \in ManualProcs : hist.started[m] = 1 /\ pc[m] = "gone"
    /\ \E n \in PackNames : packs[n] # None /\ packs[n].IsDirectory
    /\ \E n \in PackNames : packs[n] # None /\ ~packs[n].IsDirectory

\* C13: two fingerprintings of the same set of files (paths, modification
\* times, sizes) give the same digest whatever the orders of their walks,
\* the digest calculateDirectoryHash has for the set.
C13_DigestIgnoresWalkOrder ==
    \A x \in walk.seen :
       /\ x.digest = calculateDirectoryHash(Ok(x.files)).val
       /\ \A y \in walk.seen :
             {<<f.rel, f.mtime, f.size>> : f \in x.files}
                = {<<f.rel, f.mtime, f.size>> : f \in y.files}
             => x.digest = y.digest

\* C13 witness: the same files fingerprinted twice, met in different orders
C13_Witness ==
    \E x \in walk.seen : \E y \in walk.seen :
       /\ x.files = y.files
       /\ x.order # y.order
       /\ x.order[1] # y.order[1]

\* C14: of two fingerprintings of a directory that differ in one file, the
\* digests differ when the file's size or modification time differs, and are
\* equal when only its bytes differ.
C14_DigestFollowsSizeAndMtime ==
    \A x \in walk.seen : \A y \in walk.seen :
       \A f \in x.files : \A g \in y.files :
          (f # g /\ f.rel = g.rel /\ x.files \ {f} = y.files \ {g})
          => IF f.mtime # g.mtime \/ f.size # g.size
             THEN x.digest # y.digest
             ELSE x.digest = y.digest

MonitoringFailed == pc[Main] = "serving" /\ config.FileMonitor /\ ~watching

\* C16: when monitoring could not be established the manager is returned
\* all the same; the watcher never starts a scan nor leaves its wait for
\* events; until a rescan is requested the index is what the initial scan
\* alone left; and every rescan request starts its scan or waits for the
\* lock to start it.
C16_MonitoringFailureNotFatal ==
    MonitoringFailed =>
       /\ hist.started[Watcher] = 0
       /\ pc[Watcher] \in {"off", "idle"}
       /\ manualReq = 0 =>
             /\ hist.started[Main] = 1
             /\ hist.diskReader = Main
             /\ hist.writers = {Main}
             /\ mu = "free"
       /\ manualReq = SumOver(hist.started, ManualProcs)
                      + Cardinality({m \in ManualProcs : pc[m] = "lock"})

\* C16 witness: watcher.Add failed, the tree changed afterwards and was not
\* rescanned by the watcher; a manual rescan then brought the index up to date
C16_Witness ==
    /\ MonitoringFailed
    /\ pc[Watcher] = "idle"
    /\ fsChanges = 1
    /\ \E m \in ManualProcs : hist.started[m] = 1 /\ pc[m] = "gone"
    /\ LatestScanOk
    /\ packs = ScanIndex(fs)
    /\ packs # hist.before


\* ---- C17 ----
\* C17: a POST request to /api/rescan is answered by rescanPacksHandler: it
\* gets 200 and a manual rescan is started
C17_PostTriggersRescan ==
    (http # None /\ http.method = "POST" /\ http.path = RescanPath) =>
        http.status = 200 /\ http.rescan

\* the route does answer a GET: the rescan is started
C17_GetTriggersRescan ==
    (http # None /\ http.method = "GET" /\ http.path = RescanPath) =>
        http.status = 200 /\ http.rescan /\ manualReq >= 1

\* ---- C18 ----
\* the watcher is on its way to a scan, or has started one since the last change
RescanUnderWay ==
    \/ events > 0
    \/ pc[Watcher] \in {"sleep", "lock"} \cup ScanningPcs
    \/ hist.started[Watcher] > obs.last.started

\* C18: with file monitoring on and outside the cooldown, every change of the
\* kinds the README lists, a rewritten pack.mcmeta inside a pack directory
\* among them, leads to an automatic rescan
C18_EveryChangeRescans ==
    (obs.last # None /\ obs.last.outside) => RescanUnderWay

\* the same of the changes to the entries of the root alone: those do
C18_RootChangesRescan ==
    (obs.last # None /\ obs.last.outside /\ obs.last.depth = 1) => RescanUnderWay

\* a change to an entry of the root was made outside the cooldown and the
\* watcher's scan that followed has brought the index up to date
C18_RootChangeRescanned ==
    /\ obs.last # None /\ obs.last.outside /\ obs.last.depth = 1
    /\ hist.started[Watcher] > obs.last.started
    /\ pc[Watcher] = "idle"
    /\ packs = ScanIndex(fs)

\* ---- C19 ----
\* C19: the write lock is held for the final swap only: while a scan reads the
\* root, loads candidates and hashes files, a GetAllPacks call of the serving
\* program is granted the read lock
C19_ReadersPassDuringScan ==
    (Scanning # {} /\ pc[Main] = "serving" /\ reader = None) => ENABLED GetAllPacks

\* what the code does instead: from before the root is read until the scan
\* returns, the scanning goroutine holds the write lock
C19_ScanHoldsWriteLock ==
    \A p \in Scanning : mu = p /\ ~RLockFree

\* ---- C20 ----
\* C20: whenever the watcher's scan starts, at least scanCooldown has gone by
\* since lastScanTime, a manual rescan that completed during the watcher's
\* settle delay included
C20_WatcherScanPastCooldown ==
    [][(pc[Watcher] = "lock" /\ pc'[Watcher] = "readdir") => ~InCooldown(sinceScan)]_vars

\* what the code does ensure: the cooldown is over when handleFileEvent tests
\* it and goes on to its settle delay
C20_SettlePastCooldown ==
    [][(pc[Watcher] = "idle" /\ pc'[Watcher] = "sleep") => ~InCooldown(sinceScan)]_vars

\* ---- C21 ----
\* the paths of the packs in the index
IndexedPaths == {packs[n].Path : n \in {m \in PackNames : packs[m] # None}}

\* the root with a top-level manifest, the directories under the root with
\* one and the files under the root named *.zip, as far as they load and no
\* later one loads under the same name
ExpectedPaths(f) ==
    {PathOf(c) : c \in {d \in Candidates :
                          /\ EntryOf(f, d) # None
                          /\ IF EntryOf(f, d).isDir THEN EntryOf(f, d).manifest # None
                             ELSE d[Len(d)] = ZipExt
                          /\ ~Loaded(f, d).err
                          /\ LastOfName(f, d)}}

C22_NoHandlingAfterStop ==
    [][stop.closed => ~handleFileEvent]_vars

\* the other half: the goroutine is never left in its loop with the signal
\* given and nothing else to do but return
C22_StoppedWatcherCanReturn ==
    (stop.closed /\ pc[Watcher] = "idle") => ENABLED WatcherReturn

\* the terminating half, under fair scheduling: after the stop signal the
\* goroutine returns
C22_WatcherTerminates == stop.closed ~> pc[Watcher] = "returned"

\* ---- C23 ----
\* C23: during the watcher's settle delay the lock is not held: unless some
\* other scan is running, pm.mu.RLock() of GetPack and GetAllPacks is granted
\* and, no reader holding it, so is pm.mu.Lock() of a requested rescan,
\* without waiting for the delay to end
C23_SettleDelayHoldsNoLock ==
    pc[Watcher] = "sleep" =>
       /\ mu # Watcher
       /\ Scanning = {} =>
             /\ mu = "free"
             /\ RLockFree
             /\ \A m \in ManualProcs : reader = None => LockFree(m)

\* C23 witness: the delay has just begun, no time has passed; since then a
\* manual rescan has run to its end and a GetAllPacks call holds the read lock
C23_Witness ==
    /\ pc[Watcher] = "sleep"
    /\ sleepLeft = SettleTicks
    /\ sinceScan = 0
    /\ \E m \in ManualProcs : pc[m] = "gone" /\ hist.started[m] = 1
    /\ reader # None

\* ---- C24 ----
\* C24: CreateZipFromDirectory returns either an error with the empty path,
\* or the path of a finalized archive that holds every regular file of the
\* directory under its relative path; no failure, that of the final close
\* included, is reported as success
C24_ArchiveAllOrError ==
    archive # None =>
       IF archive.made.err THEN archive.made.path = None
       ELSE /\ archive.made.path # None
            /\ archive.made.finalized
            /\ ~archive.walked.err
            /\ archive.made.entries = {f.rel : f \in archive.walked.val}

\* what the code does ensure: an error comes with the empty path, and a path
\* comes with every file of the walk written as an entry
C24_PathComesWithEveryEntry ==
    archive # None =>
       IF archive.made.err THEN archive.made.path = None
       ELSE /\ archive.made.path # None
            /\ ~archive.walked.err
            /\ archive.made.entries = {f.rel : f \in archive.walked.val}

\* ---- C25 ----
\* the watcher accepts a notification and begins its settle delay
SettleBegins == pc[Watcher] = "idle" /\ pc'[Watcher] = "sleep"

\* C25: the settle delay between accepting a notification and starting the
\* scan is the configured Config.FileMonitorInterval, whatever its value
C25_SettleIsConfiguredInterval ==
    [][SettleBegins => sleepLeft' = config.FileMonitorInterval]_vars

\* what the code does: the delay is 500 ms under every configuration
C25_SettleIsHalfASecond ==
    [][SettleBegins => sleepLeft' = SettleTicks]_vars

\* ---- C26 ----
\* the goroutines other than the watcher that are about to write
\* pm.lastScanTime at the end of their scan
WritingLastScanTime == {p \in Procs \ {Watcher} : ENABLED ScanFinish(p)}

\* C26: the index and lastScanTime are accessed under the lock only: the
\* watcher's read of lastScanTime in its cooldown test and a scan's write to
\* it are never both ready to run
C26_NoReadBesideWrite ==
    ~(ENABLED handleFileEvent /\ WritingLastScanTime # {})

\* the read is made with no lock held by the watcher
C26_ReadHoldsLock ==
    [][handleFileEvent => mu = Watcher]_vars

\* what the code does ensure: the index is read with no writer in its scan
\* and written by the holder of the write lock alone
C26_IndexUnderLock ==
    [][/\ (GetAllPacks => Scanning = {})
       /\ (packs' # packs => mu' \in Procs /\ mu' \in {p \in Procs : pc'[p] \in ScanningPcs})]_vars

\* ---- C27 ----
\* C27: under fair scheduling every scan that has started returns and
\* releases the lock, on the path where the root cannot be read as on the
\* others: a scan holds the lock exactly while it runs, the lock is always
\* free again (so that a GetAllPacks call is granted it), and every scan
\* that is called, by a rescan request or by the watcher, starts and returns
C27_ScansFinishAndUnlock ==
    /\ [](\A p \in LiveProcs : pc[p] \in ScanningPcs <=> mu = p)
    /\ (mu # "free") ~> (mu = "free")
    /\ \A p \in {Watcher, "m1"} : (pc[p] = "lock") ~> (pc[p] \notin {"lock"} \cup ScanningPcs)

\* C27 witness: a scan has returned on the error path of os.ReadDir, the lock
\* is free, and a rescan requested later and a scan of the watcher have both
\* started and returned, the latest with nil
C27_Witness ==
    /\ hist.failed
    /\ LatestScanOk
    /\ Scanning = {}
    /\ hist.started[Watcher] >= 1
    /\ hist.started["m1"] = 1
    /\ pc["m1"] = "gone"

\* ---- C28 ----
\* C28: StopFileMonitoring can be called in every state and any number of
\* times: no call fails, a second call after a first included
C28_StopIsSafeToRepeat ==
    ~stop.panicked /\ pc[Main] # "panicked"

\* the half that holds: with no watcher ever made, the calls do nothing
C28_StopWithoutWatcherDoesNothing ==
    (~FileWatcherSet /\ stop.calls > 0) =>
        ~stop.closed /\ ~stop.panicked /\ pc[Main] = "serving"

=============================================================================
